---- MODULE Spec2Model ----
(***************************************************************************)
(* Model of app.py: the booking conversation of one chat session, the      *)
(* SQLite booking store with its admin audit log, the two SMTP             *)
(* notifications and the admin controls of the staff dashboard.            *)
(*                                                                         *)
(* A text is a sequence of one-character strings, so that the validators   *)
(* and keyword classifiers are computed on the characters as the code      *)
(* computes them.                                                          *)
(***************************************************************************)
EXTENDS Integers, Sequences, FiniteSets, TLC

(***************************************************************************)
(* Bounds of the model.                                                    *)
(***************************************************************************)
\* add_booking is called at most MaxBookings times
MaxBookings == 2
\* admin_logs holds at most MaxLogs rows
MaxLogs == 2

\* utterances typed in a run of IdleSpec
MaxTurns == 2

(***************************************************************************)
(* Characters and str methods.                                             *)
(***************************************************************************)
UpperChars == <<"A","B","C","D","E","F","G","H","I","J","K","L","M",
                "N","O","P","Q","R","S","T","U","V","W","X","Y","Z">>

LowerChars == <<"a","b","c","d","e","f","g","h","i","j","k","l","m",
                "n","o","p","q","r","s","t","u","v","w","x","y","z">>

DigitChars == <<"0","1","2","3","4","5","6","7","8","9">>

Range(s) == {s[i] : i \in DOMAIN s}

UpperSet == Range(UpperChars)

DigitSet == Range(DigitChars)

WordSet == Range(UpperChars) \cup Range(LowerChars) \cup Range(DigitChars) \cup {"_"}

\* regex class \d
IsDigit(c) == c \in DigitSet

\* int() of one digit character
DigitVal(c) == (CHOOSE i \in DOMAIN DigitChars : DigitChars[i] = c) - 1

\* regex class \w
IsWord(c) == c \in WordSet

\* regex class \s, and the characters str.strip() removes
IsSpace(c) == c \in {" ", "\t", "\n", "\r"}

\* str.lower() of one character
LowerChar(c) ==
    IF c \in UpperSet
    THEN LowerChars[CHOOSE i \in DOMAIN UpperChars : UpperChars[i] = c]
    ELSE c

\* str.lower()
lower(text) == [i \in DOMAIN text |-> LowerChar(text[i])]

RECURSIVE lstrip(_)
lstrip(text) ==
    IF text # <<>> /\ IsSpace(Head(text)) THEN lstrip(Tail(text)) ELSE text

RECURSIVE rstrip(_)
rstrip(text) ==
    IF text # <<>> /\ IsSpace(text[Len(text)])
    THEN rstrip(SubSeq(text, 1, Len(text) - 1))
    ELSE text

\* str.strip()
strip(text) == rstrip(lstrip(text))

\* the Python test `word in text` on two strings
Contains(text, word) ==
    \E i \in 1..(Len(text) - Len(word) + 1) :
        SubSeq(text, i, i + Len(word) - 1) = word

\* int() of a run of digit characters
RECURSIVE ToInt(_)
ToInt(ds) ==
    IF ds = <<>> THEN 0
    ELSE 10 * ToInt(SubSeq(ds, 1, Len(ds) - 1)) + DigitVal(ds[Len(ds)])

(***************************************************************************)
(* Validators.                                                             *)
(***************************************************************************)
\* one character of the class [\w\.-]
IsEmailChar(c) == IsWord(c) \/ c \in {".", "-"}

\* re.match(r"^[\w\.-]+@[\w\.-]+\.\w+$", email): `at` is the position of the
\* "@", `dot` of the last "."; "$" also matches before one trailing newline.
EmailMatch(email, n) ==
    \E at \in 2..n : \E dot \in (at + 2)..(n - 1) :
        /\ \A i \in 1..(at - 1) : IsEmailChar(email[i])
        /\ email[at] = "@"
        /\ \A i \in (at + 1)..(dot - 1) : IsEmailChar(email[i])
        /\ email[dot] = "."
        /\ \A i \in (dot + 1)..n : IsWord(email[i])

is_valid_email(email) ==
    \/ EmailMatch(email, Len(email))
    \/ /\ Len(email) >= 1
       /\ email[Len(email)] = "\n"
       /\ EmailMatch(email, Len(email) - 1)

\* strptime directive %m and %I: 1[0-2]|0[1-9]|[1-9]
MatchMonthOrHour(f) ==
    \/ Len(f) = 2 /\ f[1] = "1" /\ f[2] \in {"0", "1", "2"}
    \/ Len(f) = 2 /\ f[1] = "0" /\ IsDigit(f[2]) /\ f[2] # "0"
    \/ Len(f) = 1 /\ IsDigit(f[1]) /\ f[1] # "0"

\* strptime directive %d: 3[0-1]|[1-2]\d|0[1-9]|[1-9]| [1-9]
MatchDay(f) ==
    \/ Len(f) = 2 /\ f[1] = "3" /\ f[2] \in {"0", "1"}
    \/ Len(f) = 2 /\ f[1] \in {"1", "2"} /\ IsDigit(f[2])
    \/ Len(f) = 2 /\ f[1] \in {"0", " "} /\ IsDigit(f[2]) /\ f[2] # "0"
    \/ Len(f) = 1 /\ IsDigit(f[1]) /\ f[1] # "0"

\* strptime directive %M: [0-5]\d|\d
MatchMinute(f) ==
    \/ Len(f) = 2 /\ f[1] \in {"0", "1", "2", "3", "4", "5"} /\ IsDigit(f[2])
    \/ Len(f) = 1 /\ IsDigit(f[1])

\* int() of a %d field, which may carry a leading space
DayVal(f) == IF f[1] = " " THEN DigitVal(f[2]) ELSE ToInt(f)

IsLeap(y) == (y % 4 = 0) /\ ((y % 100 # 0) \/ (y % 400 = 0))

DaysInMonth(y, m) ==
    IF m = 2 THEN (IF IsLeap(y) THEN 29 ELSE 28)
    ELSE IF m \in {4, 6, 9, 11} THEN 30 ELSE 31

\* the date constructor strptime calls on the parsed fields (ValueError otherwise)
ValidCalendarDate(y, m, d) ==
    /\ y >= 1
    /\ m \in 1..12
    /\ d \in 1..DaysInMonth(y, m)

\* datetime.strptime(date_text, "%Y-%m-%d") does not raise: the whole text is
\* \d\d\d\d - %m - %d, and the fields name a calendar date
is_valid_date(date_text) ==
    LET n == Len(date_text) IN
    /\ n >= 8
    /\ \A i \in 1..4 : IsDigit(date_text[i])
    /\ date_text[5] = "-"
    /\ \E dash \in 7..(n - 1) :
          LET mf == SubSeq(date_text, 6, dash - 1)
              df == SubSeq(date_text, dash + 1, n)
          IN  /\ date_text[dash] = "-"
              /\ MatchMonthOrHour(mf)
              /\ MatchDay(df)
              /\ ValidCalendarDate(ToInt(SubSeq(date_text, 1, 4)), ToInt(mf), DayVal(df))

\* datetime.strptime(time_text, "%I:%M %p") does not raise: the whole text is
\* %I : %M \s+ (am|pm), matched ignoring case
is_valid_time(time_text) ==
    LET n == Len(time_text) IN
    /\ n >= 6
    /\ lower(SubSeq(time_text, n - 1, n)) \in {<<"a", "m">>, <<"p", "m">>}
    /\ \E colon \in 2..3 : \E sp \in (colon + 2)..(n - 2) :
          /\ time_text[colon] = ":"
          /\ MatchMonthOrHour(SubSeq(time_text, 1, colon - 1))
          /\ MatchMinute(SubSeq(time_text, colon + 1, sp - 1))
          /\ \A i \in sp..(n - 2) : IsSpace(time_text[i])

(***************************************************************************)
(* Keyword classifiers.                                                    *)
(***************************************************************************)
greetings ==
    { <<"h","e","l","l","o">>, <<"h","i">>, <<"h","e","y">>,
      <<"g","o","o","d"," ","m","o","r","n","i","n","g">>,
      <<"g","o","o","d"," ","a","f","t","e","r","n","o","o","n">>,
      <<"g","o","o","d"," ","e","v","e","n","i","n","g">>,
      <<"h","o","l","a">> }

is_greeting(text) ==
    LET stripped == strip(lower(text)) IN
    \E greet \in greetings : Contains(stripped, greet)

thanks_words ==
    { <<"t","h","a","n","k","s">>, <<"t","h","a","n","k"," ","y","o","u">>,
      <<"t","h","x">>, <<"t","y">> }

is_thanks(text) ==
    LET lowered == lower(text) IN
    \E word \in thanks_words : Contains(lowered, word)

keywords ==
    { <<"b","o","o","k">>, <<"s","c","h","e","d","u","l","e">>,
      <<"a","p","p","o","i","n","t","m","e","n","t">>,
      <<"r","e","s","e","r","v","e">>, <<"s","l","o","t">> }

detect_booking_intent(user_input) ==
    LET lowered == lower(user_input) IN
    \E word \in keywords : Contains(lowered, word)

\* prompt.lower() in ["yes", "y", "confirm", "ok"]
affirmative_tokens ==
    { <<"y","e","s">>, <<"y">>, <<"c","o","n","f","i","r","m">>, <<"o","k">> }

\* mutant: a token found anywhere in the prompt counts as affirmative
is_affirmative_substring(text) ==
    \E tok \in affirmative_tokens : Contains(lower(text), tok)

is_affirmative(text) == lower(text) \in affirmative_tokens

(***************************************************************************)
(* The utterances typed into st.chat_input (never empty: the handler runs  *)
(* only on a truthy prompt).                                               *)
(***************************************************************************)
U_hi == <<"h","i">>

U_ty == <<"t","y">>

U_book == <<"b","o","o","k">>

U_Schedule == <<"S","c","h","e","d","u","l","e">>

U_Al == <<"A","l">>

U_email == <<"a","@","b",".","c","o">>

U_bad_email == <<"a","@","@","b">>

U_date == <<"2","0","2","5","-","0","3","-","1","0">>

U_bad_date == <<"2","0","2","5","-","1","3","-","0","1">>

U_time == <<"1","0",":","3","0"," ","A","M">>

U_bad_time == <<"1","4",":","3","0">>

U_time2 == <<"1",":","5"," ","p","m">>

\* a second patient's email and date (typed in two-session runs only)
U_email2 == <<"c","@","d",".","i","o">>

U_date2 == <<"2","0","2","4","-","0","2","-","2","9">>

U_bad_date2 == <<"2","0","2","5","-","0","2","-","3","0">>

U_yes == <<"y","e","s">>

U_OK == <<"O","K">>

U_nope == <<"n","o","p","e">>

\* a greeting, a thanks word and both, each next to a booking keyword
U_hi_book == <<"H","i"," ","b","o","o","k">>

U_slot_thx == <<"s","l","o","t"," ","t","h","x">>

U_hey_ty == <<"h","e","y"," ","t","y">>

Utterances ==
    { U_hi, U_ty, U_book, U_Schedule, U_Al, U_email, U_bad_email,
      U_date, U_bad_date, U_bad_date2, U_time, U_bad_time,
      U_yes, U_OK, U_nope, U_hi_book, U_slot_thx, U_hey_ty }

\* the utterances typed as a name: the NAME handler stores any prompt verbatim
NameInputs == { U_Al, U_hi }

(***************************************************************************)
(* State.                                                                  *)
(***************************************************************************)
VARIABLES
    booking_state,    \* st.session_state.booking_state
    booking_data,     \* st.session_state.booking_data: the draft, field -> text
    response_text,    \* the assistant message of the latest turn
    vectorstore,      \* st.session_state.vectorstore is set
    pc,               \* position of the chat turn handler inside the commit
    booking_id,       \* local of the CONFIRM handler: the id add_booking returned
    email_sent,       \* local of the CONFIRM handler: result of the confirmation
    bookings,         \* rows of table bookings
    sqlite_sequence,  \* largest rowid table bookings ever held (AUTOINCREMENT)
    admin_logs,       \* rows of table admin_logs, in id order
    outbox,           \* the SMTP sends attempted so far, in order
    row,              \* per dashboard session: ID of the row whose button is handled
    script,           \* the scripted dialogue still to be typed (scenario runs)
    idx,              \* position in the script
    conn,             \* per dashboard session: the sqlite3 connection of its store call
    seen,             \* what a reading session got from its latest SELECTs
    messages,         \* st.session_state.messages (recorded in two-session runs)
    active,           \* the chat session whose script run the variables above belong to
    other             \* st.session_state and script run of the other chat session

sessionVars == <<booking_state, booking_data, response_text, pc, booking_id, email_sent>>

storeVars == <<bookings, sqlite_sequence, admin_logs>>

scriptVars == <<script, idx>>

txnVars == <<conn, seen>>

peerVars == <<messages, active, other>>

vars == <<booking_state, booking_data, response_text, vectorstore, pc, booking_id,
          email_sent, bookings, sqlite_sequence, admin_logs, outbox, row, script, idx,
          conn, seen, messages, active, other>>

\* the browser sessions logged in with role Admin
AdminSessions == {"admin1", "admin2"}

\* options of the "Update Status" selectbox
StatusOptions == {"Pending", "Confirmed", "Cancelled", "Completed"}

\* booking_data = {}
EmptyDraft == [k \in {} |-> <<>>]

\* booking_data[k] = v
SetField(d, k, v) == [f \in (DOMAIN d) \cup {k} |-> IF f = k THEN v ELSE d[f]]

\* no transaction open: before the first execute, after commit() and close()
ClosedConn == [step |-> "closed"]

\* an assistant message: which text it is and the values formatted into it
Response(kind, bid, shown) == [kind |-> kind, booking_id |-> bid, shown |-> shown]

\* a browser session after the session state initialisation, nothing typed
FreshSession ==
    [ booking_state |-> "IDLE",
      booking_data  |-> EmptyDraft,
      response_text |-> Response("none", 0, EmptyDraft),
      vectorstore   |-> FALSE,
      pc            |-> "idle",
      booking_id    |-> 0,
      email_sent    |-> FALSE,
      messages      |-> <<>>,
      script        |-> <<>>,
      idx           |-> 0 ]

InitProgram ==
    /\ booking_state = "IDLE"
    /\ booking_data = EmptyDraft
    /\ response_text = Response("none", 0, EmptyDraft)
    /\ vectorstore = FALSE
    /\ pc = "idle"
    /\ booking_id = 0
    /\ email_sent = FALSE
    /\ bookings = {}
    /\ sqlite_sequence = 0
    /\ admin_logs = <<>>
    /\ outbox = <<>>
    /\ row = [a \in AdminSessions |-> 0]
    /\ conn = [a \in AdminSessions |-> ClosedConn]
    /\ seen = [bookings |-> {}, admin_logs |-> <<>>]
    /\ messages = <<>>
    /\ active = 1

Init ==
    /\ InitProgram
    /\ other = FreshSession
    /\ script = <<>>
    /\ idx = 0

(***************************************************************************)
(* Booking store.                                                          *)
(***************************************************************************)
\* mutant: INTEGER PRIMARY KEY without AUTOINCREMENT: one more than the largest
\* rowid now in the table
NextRowId_MaxPlusOne ==
    IF bookings = {} THEN 1
    ELSE 1 + CHOOSE m \in {b.id : b \in bookings} : \A b \in bookings : b.id <= m

\* id INTEGER PRIMARY KEY AUTOINCREMENT: one more than the largest rowid the
\* table ever held
NextRowId == sqlite_sequence + 1

\* mutant: the row is inserted with status 'Pending'
add_booking_pending(name, email, date, time, booking_type) ==
    /\ bookings' = bookings \cup
          { [ id               |-> NextRowId,
              patient_name     |-> name,
              patient_email    |-> email,
              appointment_date |-> date,
              appointment_time |-> time,
              booking_type     |-> booking_type,
              status           |-> "Pending" ] }
    /\ sqlite_sequence' = NextRowId
    /\ booking_id' = NextRowId
    /\ UNCHANGED admin_logs

\* mutant: appointment_date and appointment_time bound in the wrong order
add_booking_swapped(name, email, date, time, booking_type) ==
    /\ bookings' = bookings \cup
          { [ id               |-> NextRowId,
              patient_name     |-> name,
              patient_email    |-> email,
              appointment_date |-> time,
              appointment_time |-> date,
              booking_type     |-> booking_type,
              status           |-> "Confirmed" ] }
    /\ sqlite_sequence' = NextRowId
    /\ booking_id' = NextRowId
    /\ UNCHANGED admin_logs

\* mutant: conn.commit() left out, so the insert is rolled back on close
add_booking_no_commit(name, email, date, time, booking_type) ==
    /\ booking_id' = NextRowId
    /\ UNCHANGED <<bookings, sqlite_sequence, admin_logs>>

add_booking(name, email, date, time, booking_type) ==
    /\ bookings' = bookings \cup
          { [ id               |-> NextRowId,
              patient_name     |-> name,
              patient_email    |-> email,
              appointment_date |-> date,
              appointment_time |-> time,
              booking_type     |-> booking_type,
              status           |-> "Confirmed" ] }
    /\ sqlite_sequence' = NextRowId
    /\ booking_id' = NextRowId
    /\ UNCHANGED admin_logs

update_booking_status(bid, new_status, admin) ==
    /\ bookings' = { IF b.id = bid THEN [b EXCEPT !.status = new_status] ELSE b
                     : b \in bookings }
    /\ admin_logs' = Append(admin_logs,
          [ action       |-> "Status changed to " \o new_status,
            booking_id   |-> bid,
            performed_by |-> admin ])
    /\ UNCHANGED sqlite_sequence

\* mutant: the audit rows of the booking are deleted with it
delete_booking_purges_log(bid, admin) ==
    /\ bookings' = { b \in bookings : b.id # bid }
    /\ admin_logs' = Append(SelectSeq(admin_logs, LAMBDA e : e.booking_id # bid),
          [ action       |-> "Booking deleted",
            booking_id   |-> bid,
            performed_by |-> admin ])
    /\ UNCHANGED sqlite_sequence

\* mutant: the audit insert left out
delete_booking_no_log(bid, admin) ==
    /\ bookings' = { b \in bookings : b.id # bid }
    /\ UNCHANGED <<admin_logs, sqlite_sequence>>

delete_booking(bid, admin) ==
    /\ bookings' = { b \in bookings : b.id # bid }
    /\ admin_logs' = Append(admin_logs,
          [ action       |-> "Booking deleted",
            booking_id   |-> bid,
            performed_by |-> admin ])
    /\ UNCHANGED sqlite_sequence

\* SELECT * FROM bookings (the rows; their display order is not modelled)
get_all_bookings == bookings

(***************************************************************************)
(* Notifier: each send either goes through or raises inside the function's *)
(* try block.                                                              *)
(***************************************************************************)
\* mutant: the except branch also returns True
send_email_confirmation_true(bid, ok) ==
    /\ outbox' = Append(outbox, [kind |-> "confirmation", booking_id |-> bid, ok |-> ok])
    /\ email_sent' = TRUE

send_email_confirmation(bid, ok) ==
    /\ outbox' = Append(outbox, [kind |-> "confirmation", booking_id |-> bid, ok |-> ok])
    /\ email_sent' = ok

\* mutant: the alert is sent only after a confirmation that went through
send_admin_alert_if_confirmed(bid, ok) ==
    outbox' = IF email_sent
              THEN Append(outbox, [kind |-> "admin_alert", booking_id |-> bid, ok |-> ok])
              ELSE outbox

send_admin_alert(bid, ok) ==
    outbox' = Append(outbox, [kind |-> "admin_alert", booking_id |-> bid, ok |-> ok])

(***************************************************************************)
(* Chat turn handler: one utterance, dispatched on booking_state.          *)
(***************************************************************************)
\* mutant: the booking keywords are looked for before the greeting
idle_handler_intent_first(text) ==
    /\ IF detect_booking_intent(text)
       THEN /\ booking_state' = "NAME"
            /\ response_text' = Response("ask_name", 0, EmptyDraft)
       ELSE IF is_greeting(text)
       THEN /\ response_text' = Response("greeting", 0, EmptyDraft)
            /\ UNCHANGED booking_state
       ELSE IF is_thanks(text)
       THEN /\ response_text' = Response("thanks", 0, EmptyDraft)
            /\ UNCHANGED booking_state
       ELSE /\ response_text' = IF vectorstore
                                THEN Response("rag_answer", 0, EmptyDraft)
                                ELSE Response("upload_prompt", 0, EmptyDraft)
            /\ UNCHANGED booking_state
    /\ UNCHANGED <<booking_data, pc, booking_id, email_sent, storeVars>>

idle_handler(text) ==
    /\ IF is_greeting(text)
       THEN /\ response_text' = Response("greeting", 0, EmptyDraft)
            /\ UNCHANGED booking_state
       ELSE IF is_thanks(text)
       THEN /\ response_text' = Response("thanks", 0, EmptyDraft)
            /\ UNCHANGED booking_state
       ELSE IF detect_booking_intent(text)
       THEN /\ booking_state' = "NAME"
            /\ response_text' = Response("ask_name", 0, EmptyDraft)
       ELSE /\ response_text' = IF vectorstore
                                THEN Response("rag_answer", 0, EmptyDraft)
                                ELSE Response("upload_prompt", 0, EmptyDraft)
            /\ UNCHANGED booking_state
    /\ UNCHANGED <<booking_data, pc, booking_id, email_sent, storeVars>>

name_handler(text) ==
    /\ booking_data' = SetField(booking_data, "name", text)
    /\ booking_state' = "EMAIL"
    /\ response_text' = Response("ask_email", 0, EmptyDraft)
    /\ UNCHANGED <<pc, booking_id, email_sent, storeVars>>

\* mutant: the email is stored before it is validated
email_handler_stores_first(text) ==
    /\ booking_data' = SetField(booking_data, "email", text)
    /\ IF ~is_valid_email(text)
       THEN /\ response_text' = Response("invalid_email", 0, EmptyDraft)
            /\ UNCHANGED booking_state
       ELSE /\ booking_state' = "DATE"
            /\ response_text' = Response("ask_date", 0, EmptyDraft)
    /\ UNCHANGED <<pc, booking_id, email_sent, storeVars>>

email_handler(text) ==
    /\ IF ~is_valid_email(text)
       THEN /\ response_text' = Response("invalid_email", 0, EmptyDraft)
            /\ UNCHANGED <<booking_data, booking_state>>
       ELSE /\ booking_data' = SetField(booking_data, "email", text)
            /\ booking_state' = "DATE"
            /\ response_text' = Response("ask_date", 0, EmptyDraft)
    /\ UNCHANGED <<pc, booking_id, email_sent, storeVars>>

date_handler(text) ==
    /\ IF ~is_valid_date(text)
       THEN /\ response_text' = Response("invalid_date", 0, EmptyDraft)
            /\ UNCHANGED <<booking_data, booking_state>>
       ELSE /\ booking_data' = SetField(booking_data, "date", text)
            /\ booking_state' = "TIME"
            /\ response_text' = Response("ask_time", 0, EmptyDraft)
    /\ UNCHANGED <<pc, booking_id, email_sent, storeVars>>

\* the summary formats data['name'], data['date'] and data['time']
time_handler(text) ==
    /\ IF ~is_valid_time(text)
       THEN /\ response_text' = Response("invalid_time", 0, EmptyDraft)
            /\ UNCHANGED <<booking_data, booking_state>>
       ELSE /\ booking_data' = SetField(booking_data, "time", text)
            /\ booking_state' = "CONFIRM"
            /\ response_text' = Response("confirm_details", 0,
                  [k \in {"name", "date", "time"} |-> booking_data'[k]])
    /\ UNCHANGED <<pc, booking_id, email_sent, storeVars>>

\* mutant: the cancel branch leaves booking_data as it is
confirm_handler_keeps_draft(text) ==
    IF is_affirmative(text)
    THEN /\ sqlite_sequence < MaxBookings
         /\ add_booking(booking_data["name"], booking_data["email"],
                        booking_data["date"], booking_data["time"],
                        "Dental Consultation")
         /\ pc' = "send_email_confirmation"
         /\ UNCHANGED <<booking_state, booking_data, response_text, email_sent>>
    ELSE /\ response_text' = Response("booking_cancelled", 0, EmptyDraft)
         /\ booking_state' = "IDLE"
         /\ UNCHANGED <<booking_data, pc, booking_id, email_sent, storeVars>>

\* An affirmative prompt saves the booking and goes on to the two sends (the
\* turn ends in SendAdminAlert); any other prompt cancels and resets at once.
confirm_handler(text) ==
    IF is_affirmative(text)
    THEN /\ sqlite_sequence < MaxBookings
         /\ add_booking(booking_data["name"], booking_data["email"],
                        booking_data["date"], booking_data["time"],
                        "Dental Consultation")
         /\ pc' = "send_email_confirmation"
         /\ UNCHANGED <<booking_state, booking_data, response_text, email_sent>>
    ELSE /\ response_text' = Response("booking_cancelled", 0, EmptyDraft)
         /\ booking_state' = "IDLE"
         /\ booking_data' = EmptyDraft
         /\ UNCHANGED <<pc, booking_id, email_sent, storeVars>>

chat_turn(text) ==
    /\ pc = "idle"
    /\ CASE booking_state = "IDLE"    -> idle_handler(text)
         [] booking_state = "NAME"    -> name_handler(text)
         [] booking_state = "EMAIL"   -> email_handler(text)
         [] booking_state = "DATE"    -> date_handler(text)
         [] booking_state = "TIME"    -> time_handler(text)
         [] booking_state = "CONFIRM" -> confirm_handler(text)
    /\ UNCHANGED <<vectorstore, outbox, row, txnVars>>

\* the CONFIRM handler after add_booking returned: the confirmation email
SendEmailConfirmation ==
    /\ pc = "send_email_confirmation"
    /\ \E ok \in BOOLEAN : send_email_confirmation(booking_id, ok)
    /\ pc' = "send_admin_alert"
    /\ UNCHANGED <<booking_state, booking_data, response_text, booking_id,
                   vectorstore, storeVars, row, txnVars>>

\* mutant: the reset of booking_state and booking_data left out
SendAdminAlert_NoReset ==
    /\ pc = "send_admin_alert"
    /\ \E ok \in BOOLEAN : send_admin_alert(booking_id, ok)
    /\ response_text' = IF email_sent
                        THEN Response("booking_confirmed_email_sent", booking_id, EmptyDraft)
                        ELSE Response("booking_confirmed_email_failed", booking_id, EmptyDraft)
    /\ pc' = "idle"
    /\ booking_id' = 0
    /\ email_sent' = FALSE
    /\ UNCHANGED <<booking_state, booking_data, vectorstore, storeVars, row, txnVars>>

\* the CONFIRM handler after the confirmation: the admin alert, the response
\* chosen by email_sent, and the reset of booking_state and booking_data
SendAdminAlert ==
    /\ pc = "send_admin_alert"
    /\ \E ok \in BOOLEAN : send_admin_alert(booking_id, ok)
    /\ response_text' = IF email_sent
                        THEN Response("booking_confirmed_email_sent", booking_id, EmptyDraft)
                        ELSE Response("booking_confirmed_email_failed", booking_id, EmptyDraft)
    /\ booking_state' = "IDLE"
    /\ booking_data' = EmptyDraft
    /\ pc' = "idle"
    /\ booking_id' = 0
    /\ email_sent' = FALSE
    /\ UNCHANGED <<vectorstore, storeVars, row, txnVars>>

\* sqlite3 raises inside add_booking (database locked or unavailable): nothing
\* is committed and the exception leaves the script run, before the response
\* and before the reset
StoreFailure ==
    /\ pc = "idle"
    /\ booking_state = "CONFIRM"
    /\ response_text' = Response("uncaught_exception", 0, EmptyDraft)
    /\ UNCHANGED <<booking_state, booking_data, pc, booking_id, email_sent,
                   vectorstore, storeVars, outbox, row, txnVars>>

\* "Process PDF" in the sidebar
ProcessPDF ==
    /\ ~vectorstore
    /\ vectorstore' = TRUE
    /\ UNCHANGED <<sessionVars, storeVars, outbox, row, txnVars>>

(***************************************************************************)
(* Admin controls of the dashboard.                                        *)
(***************************************************************************)
\* a script run reads the bookings and reaches the clicked button of row bid
AdminRun(a, bid) ==
    /\ row[a] = 0
    /\ Len(admin_logs) < MaxLogs
    /\ bid \in {b.id : b \in get_all_bookings}
    /\ row' = [row EXCEPT ![a] = bid]
    /\ UNCHANGED <<sessionVars, vectorstore, storeVars, outbox, txnVars>>

\* "Save Status": update_booking_status(row["ID"], new_status), st.rerun()
SaveStatus(a, new_status) ==
    /\ row[a] # 0
    /\ Len(admin_logs) < MaxLogs
    /\ update_booking_status(row[a], new_status, "Admin")
    /\ row' = [row EXCEPT ![a] = 0]
    /\ UNCHANGED <<sessionVars, vectorstore, outbox, txnVars>>

\* "Delete Booking": delete_booking(row["ID"]), st.rerun()
DeleteBooking(a) ==
    /\ row[a] # 0
    /\ Len(admin_logs) < MaxLogs
    /\ delete_booking(row[a], "Admin")
    /\ row' = [row EXCEPT ![a] = 0]
    /\ UNCHANGED <<sessionVars, vectorstore, outbox, txnVars>>

(***************************************************************************)
(* The store calls of the dashboard statement by statement: sqlite3 opens  *)
(* a transaction at the first UPDATE/DELETE of a connection, its writes    *)
(* stay in the connection until conn.commit(), and a connection that is    *)
(* dropped without commit() is rolled back.  One connection at a time      *)
(* holds the write lock; the others read the committed tables.             *)
(***************************************************************************)
WriteLocked == \E a \in AdminSessions : conn[a].step \in {"mutated", "logged"}

\* mutant: isolation_level=None, the UPDATE is committed on its own
ExecuteUpdate_autocommit(a, new_status) ==
    /\ row[a] # 0
    /\ conn[a].step \in {"closed", "rolled_back"}
    /\ ~WriteLocked
    /\ Len(admin_logs) < MaxLogs
    /\ bookings' = { IF b.id = row[a] THEN [b EXCEPT !.status = new_status] ELSE b
                     : b \in bookings }
    /\ conn' = [conn EXCEPT ![a] =
          [ step       |-> "mutated",
            action     |-> "Status changed to " \o new_status,
            bookings   |-> bookings',
            admin_logs |-> admin_logs ]]
    /\ UNCHANGED <<sessionVars, vectorstore, sqlite_sequence, admin_logs, outbox,
                   row, seen>>

\* update_booking_status: c.execute("UPDATE bookings SET status=? WHERE id=?")
ExecuteUpdate(a, new_status) ==
    /\ row[a] # 0
    /\ conn[a].step \in {"closed", "rolled_back"}
    /\ ~WriteLocked
    /\ Len(admin_logs) < MaxLogs
    /\ conn' = [conn EXCEPT ![a] =
          [ step       |-> "mutated",
            action     |-> "Status changed to " \o new_status,
            bookings   |-> { IF b.id = row[a] THEN [b EXCEPT !.status = new_status]
                             ELSE b : b \in bookings },
            admin_logs |-> admin_logs ]]
    /\ UNCHANGED <<sessionVars, vectorstore, storeVars, outbox, row, seen>>

\* delete_booking: c.execute("DELETE FROM bookings WHERE id=?")
ExecuteDelete(a) ==
    /\ row[a] # 0
    /\ conn[a].step \in {"closed", "rolled_back"}
    /\ ~WriteLocked
    /\ Len(admin_logs) < MaxLogs
    /\ conn' = [conn EXCEPT ![a] =
          [ step       |-> "mutated",
            action     |-> "Booking deleted",
            bookings   |-> { b \in bookings : b.id # row[a] },
            admin_logs |-> admin_logs ]]
    /\ UNCHANGED <<sessionVars, vectorstore, storeVars, outbox, row, seen>>

\* c.execute("INSERT INTO admin_logs ...") of either function
ExecuteInsertLog(a) ==
    /\ conn[a].step = "mutated"
    /\ conn' = [conn EXCEPT ![a].step = "logged",
                            ![a].admin_logs = Append(@,
                                [ action       |-> conn[a].action,
                                  booking_id   |-> row[a],
                                  performed_by |-> "Admin" ])]
    /\ UNCHANGED <<sessionVars, vectorstore, storeVars, outbox, row, seen>>

\* conn.commit(), conn.close(), st.rerun()
Commit(a) ==
    /\ conn[a].step = "logged"
    /\ bookings' = conn[a].bookings
    /\ admin_logs' = conn[a].admin_logs
    /\ conn' = [conn EXCEPT ![a] = ClosedConn]
    /\ row' = [row EXCEPT ![a] = 0]
    /\ UNCHANGED <<sessionVars, vectorstore, sqlite_sequence, outbox, seen>>

\* the first execute of a store call finds the write lock held by another
\* connection: sqlite3 raises "database is locked", nothing was written, and
\* the script run ends with the exception
DatabaseLocked(a) ==
    /\ row[a] # 0
    /\ conn[a].step \in {"closed", "rolled_back"}
    /\ WriteLocked
    /\ row' = [row EXCEPT ![a] = 0]
    /\ UNCHANGED <<sessionVars, vectorstore, storeVars, outbox, txnVars>>

\* sqlite3 raises at the INSERT or at the commit of a store call: the
\* function is left before commit() returns, the connection is dropped and
\* its transaction rolled back, and the script run ends with the exception
OperationalError(a) ==
    /\ row[a] # 0
    /\ conn[a].step \in {"mutated", "logged"}
    /\ conn' = [conn EXCEPT ![a] = [step |-> "rolled_back"]]
    /\ row' = [row EXCEPT ![a] = 0]
    /\ UNCHANGED <<sessionVars, vectorstore, storeVars, outbox, seen>>

\* a dashboard run of another session starts: bookings = get_all_bookings()
\* (logs, read further down, is not assigned yet)
ReadBookings ==
    /\ seen' = [bookings |-> get_all_bookings, admin_logs |-> <<>>]
    /\ UNCHANGED <<sessionVars, vectorstore, storeVars, outbox, row, conn>>

\* the same run further down: pd.read_sql("SELECT * FROM admin_logs ...")
ReadAuditLog ==
    /\ seen' = [seen EXCEPT !.admin_logs = admin_logs]
    /\ UNCHANGED <<sessionVars, vectorstore, storeVars, outbox, row, conn>>

(***************************************************************************)
(* Specifications.                                                         *)
(***************************************************************************)
\* Spec: the conversation of one chat session with the store and the notifier.
ChatTurn ==
    /\ \E text \in (IF booking_state = "NAME" THEN NameInputs ELSE Utterances) :
          chat_turn(text)
    /\ UNCHANGED <<scriptVars, peerVars>>

Next ==
    \/ ChatTurn
    \/ SendEmailConfirmation /\ UNCHANGED <<scriptVars, peerVars>>
    \/ SendAdminAlert /\ UNCHANGED <<scriptVars, peerVars>>
    \/ ProcessPDF /\ UNCHANGED <<scriptVars, peerVars>>

Spec == Init /\ [][Next]_vars

\* StoreFailureSpec: the same conversation on a store whose insert may fail.
StoreFailureNext ==
    \/ Next
    \/ StoreFailure /\ UNCHANGED <<scriptVars, peerVars>>

StoreFailureSpec == Init /\ [][StoreFailureNext]_vars

\* DashboardSpec: the store under the calls the application makes on it: the
\* add_booking of a confirmed dialogue and the admin controls of two dashboard
\* sessions.
ValidEmails == {u \in Utterances : is_valid_email(u)}

ValidDates == {u \in Utterances : is_valid_date(u)}

ValidTimes == {u \in Utterances : is_valid_time(u)}

CreateBooking ==
    /\ sqlite_sequence < MaxBookings
    /\ \E name \in NameInputs : \E email \in ValidEmails :
       \E date \in ValidDates : \E time \in ValidTimes :
          add_booking(name, email, date, time, "Dental Consultation")
    /\ UNCHANGED <<booking_state, booking_data, response_text, pc, email_sent,
                   vectorstore, outbox, row, scriptVars, txnVars, peerVars>>

DashboardNext ==
    \/ CreateBooking
    \/ \E a \in AdminSessions : \E bid \in 1..MaxBookings : AdminRun(a, bid) /\ UNCHANGED <<scriptVars, peerVars>>
    \/ \E a \in AdminSessions : \E s \in StatusOptions : SaveStatus(a, s) /\ UNCHANGED <<scriptVars, peerVars>>
    \/ \E a \in AdminSessions : DeleteBooking(a) /\ UNCHANGED <<scriptVars, peerVars>>

DashboardSpec == Init /\ [][DashboardNext]_vars

\* TxnSpec: the store under the statements of concurrent connections: the
\* insert of a chat session, the two-statement transactions of two dashboard
\* sessions, which may fail part-way, and the SELECTs of a reading session.
\* the select box left on the status of a new booking, or moved to another
TxnStatuses == {"Confirmed", "Cancelled"}

TxnNext ==
    \/ ~WriteLocked /\ CreateBooking /\ (\A b \in bookings' : b.patient_name = U_Al)
    \/ \E a \in AdminSessions : \E bid \in 1..MaxBookings : AdminRun(a, bid) /\ UNCHANGED <<scriptVars, peerVars>>
    \/ \E a \in AdminSessions : \E s \in TxnStatuses : ExecuteUpdate(a, s) /\ UNCHANGED <<scriptVars, peerVars>>
    \/ \E a \in AdminSessions : ExecuteDelete(a) /\ UNCHANGED <<scriptVars, peerVars>>
    \/ \E a \in AdminSessions : ExecuteInsertLog(a) /\ UNCHANGED <<scriptVars, peerVars>>
    \/ \E a \in AdminSessions : Commit(a) /\ UNCHANGED <<scriptVars, peerVars>>
    \/ \E a \in AdminSessions : DatabaseLocked(a) /\ UNCHANGED <<scriptVars, peerVars>>
    \/ \E a \in AdminSessions : OperationalError(a) /\ UNCHANGED <<scriptVars, peerVars>>
    \/ ReadBookings /\ UNCHANGED <<scriptVars, peerVars>>
    \/ ReadAuditLog /\ UNCHANGED <<scriptVars, peerVars>>

TxnSpec == Init /\ [][TxnNext]_vars

\* ScenarioSpec: one chat session that types a scripted dialogue: a text
\* classified as booking intent, a name, a valid email, a valid date, a valid
\* time and an affirmative token.
IntentTexts ==
    {u \in Utterances : ~is_greeting(u) /\ ~is_thanks(u) /\ detect_booking_intent(u)}

AffirmativeTexts == {u \in Utterances : lower(u) \in affirmative_tokens}

\* the times a script may hold: also one without zero padding, in lower case
ScriptTimes == ValidTimes \cup {U_time2}

Scripts ==
    { <<i, n, e, d, t, y>> :
        i \in IntentTexts, n \in NameInputs, e \in ValidEmails,
        d \in ValidDates, t \in {u \in ScriptTimes : is_valid_time(u)},
        y \in AffirmativeTexts }

ScenarioInit ==
    /\ InitProgram
    /\ other = FreshSession
    /\ script \in Scripts
    /\ idx = 1

ScriptTurn ==
    /\ idx <= Len(script)
    /\ chat_turn(script[idx])
    /\ idx' = idx + 1
    /\ UNCHANGED <<script, peerVars>>

ScenarioNext ==
    \/ ScriptTurn
    \/ SendEmailConfirmation /\ UNCHANGED <<scriptVars, peerVars>>
    \/ SendAdminAlert /\ UNCHANGED <<scriptVars, peerVars>>

ScenarioSpec == ScenarioInit /\ [][ScenarioNext]_vars

\* IdleSpec: a chat session that types MaxTurns utterances, any of the
\* vocabulary, with or without a processed PDF.
IdleScripts == [1..MaxTurns -> Utterances]

IdleInit ==
    /\ InitProgram
    /\ other = FreshSession
    /\ script \in IdleScripts
    /\ idx = 1

IdleNext ==
    \/ ScriptTurn
    \/ ProcessPDF /\ UNCHANGED <<scriptVars, peerVars>>

IdleSpec == IdleInit /\ [][IdleNext]_vars

\* ClinicSpec: the whole application: one chat session that types a scripted
\* conversation (a booking, then every turn that books nothing, then a second
\* booking) while two dashboard sessions use the admin controls.
Detour ==
    <<U_hi, U_ty, U_nope, U_book, U_Al, U_bad_email, U_email, U_bad_date,
      U_date, U_bad_time, U_time, U_nope>>

ClinicScripts ==
    { s \o Detour \o s : s \in {t \in Scripts : t[1] = U_book /\ t[2] = U_Al} }

ClinicInit ==
    /\ InitProgram
    /\ other = FreshSession
    /\ script \in ClinicScripts
    /\ idx = 1

ClinicNext ==
    \/ ScriptTurn
    \/ SendEmailConfirmation /\ UNCHANGED <<scriptVars, peerVars>>
    \/ SendAdminAlert /\ UNCHANGED <<scriptVars, peerVars>>
    \/ \E a \in AdminSessions : \E bid \in 1..MaxBookings : AdminRun(a, bid) /\ UNCHANGED <<scriptVars, peerVars>>
    \/ \E a \in AdminSessions : \E s \in StatusOptions : SaveStatus(a, s) /\ UNCHANGED <<scriptVars, peerVars>>
    \/ \E a \in AdminSessions : DeleteBooking(a) /\ UNCHANGED <<scriptVars, peerVars>>

ClinicSpec == ClinicInit /\ [][ClinicNext]_vars

\* PeerSpec: two chat sessions, each typing its own dialogue to the confirm
\* prompt and then confirming or cancelling, their script runs interleaved
\* step by step.  The chat variables hold the session whose run is
\* executing; Switch hands the processor to the other session's run.
PeerScripts(s) ==
    IF s = 1
    THEN { <<U_book, U_Al, U_email, U_date, U_time, y>> : y \in {U_yes, U_nope} }
    ELSE { <<U_Schedule, U_hi, U_email2, U_date2, U_time2, y>> : y \in {U_OK, U_nope} }

PeerInit ==
    /\ InitProgram
    /\ script \in PeerScripts(1)
    /\ idx = 1
    /\ \E t \in PeerScripts(2) : other = [FreshSession EXCEPT !.script = t, !.idx = 1]

\* one turn: the prompt is appended to messages, the handler runs, and the
\* response is appended unless the turn goes on to the sends
PeerTurn ==
    /\ idx <= Len(script)
    /\ chat_turn(script[idx])
    /\ idx' = idx + 1
    /\ messages' =
          IF pc' = "idle"
          THEN messages \o << [role |-> "user", content |-> script[idx]],
                              [role |-> "assistant", content |-> response_text'] >>
          ELSE Append(messages, [role |-> "user", content |-> script[idx]])
    /\ UNCHANGED <<script, active, other>>

PeerSendEmailConfirmation ==
    /\ SendEmailConfirmation
    /\ UNCHANGED <<scriptVars, peerVars>>

\* the end of the commit turn: its response is appended to messages
PeerSendAdminAlert ==
    /\ SendAdminAlert
    /\ messages' = Append(messages, [role |-> "assistant", content |-> response_text'])
    /\ UNCHANGED <<scriptVars, active, other>>

\* mutant: booking_data kept in a module-level dict that all sessions share
Switch_shared_draft ==
    /\ active' = 3 - active
    /\ other' = [ booking_state |-> booking_state,
                  booking_data  |-> booking_data,
                  response_text |-> response_text,
                  vectorstore   |-> vectorstore,
                  pc            |-> pc,
                  booking_id    |-> booking_id,
                  email_sent    |-> email_sent,
                  messages      |-> messages,
                  script        |-> script,
                  idx           |-> idx ]
    /\ booking_state' = other.booking_state
    /\ response_text' = other.response_text
    /\ vectorstore' = other.vectorstore
    /\ pc' = other.pc
    /\ booking_id' = other.booking_id
    /\ email_sent' = other.email_sent
    /\ messages' = other.messages
    /\ script' = other.script
    /\ idx' = other.idx
    /\ UNCHANGED <<booking_data, storeVars, outbox, row, txnVars>>

\* the other session's script run gets the processor: st.session_state and
\* the locals of the running script are those of that session
Switch ==
    /\ active' = 3 - active
    /\ other' = [ booking_state |-> booking_state,
                  booking_data  |-> booking_data,
                  response_text |-> response_text,
                  vectorstore   |-> vectorstore,
                  pc            |-> pc,
                  booking_id    |-> booking_id,
                  email_sent    |-> email_sent,
                  messages      |-> messages,
                  script        |-> script,
                  idx           |-> idx ]
    /\ booking_state' = other.booking_state
    /\ booking_data' = other.booking_data
    /\ response_text' = other.response_text
    /\ vectorstore' = other.vectorstore
    /\ pc' = other.pc
    /\ booking_id' = other.booking_id
    /\ email_sent' = other.email_sent
    /\ messages' = other.messages
    /\ script' = other.script
    /\ idx' = other.idx
    /\ UNCHANGED <<storeVars, outbox, row, txnVars>>

PeerNext ==
    \/ PeerTurn
    \/ PeerSendEmailConfirmation
    \/ PeerSendAdminAlert
    \/ Switch

PeerSpec == PeerInit /\ [][PeerNext]_vars

(***************************************************************************)
(* Properties.                                                             *)
(***************************************************************************)
Ids(rows) == {b.id : b \in rows}

Last(q) == q[Len(q)]

\* C1: a step creates a booking exactly when it is the chat turn of an
\* affirmative utterance in CONFIRM, and then it creates one; every other chat
\* turn (an affirmative utterance in IDLE among them) creates no booking and
\* sends nothing; once the commit has run to its end the state is IDLE and the
\* draft is empty.
C1_OneBookingPerAffirmativeConfirm ==
    [][ /\ \A text \in Utterances :
              \/ IF booking_state = "CONFIRM" /\ lower(text) \in affirmative_tokens
                 THEN /\ Cardinality(bookings') = Cardinality(bookings) + 1
                      /\ bookings \subseteq bookings'
                 ELSE /\ bookings' = bookings
                      /\ outbox' = outbox
                      /\ pc' = "idle"
              \/ ~chat_turn(text)
        /\ \/ bookings' = bookings
           \/ \E text \in Utterances : chat_turn(text)
        /\ (pc # "idle" /\ pc' = "idle") =>
              (booking_state' = "IDLE" /\ booking_data' = EmptyDraft)
      ]_vars

\* one booking committed, then an utterance handled in IDLE by the fallback
\* branch (as "yes" is): still one booking and the two sends of the commit
C1_Witness ==
    /\ sqlite_sequence = 1
    /\ Cardinality(bookings) = 1
    /\ Len(outbox) = 2
    /\ pc = "idle"
    /\ booking_state = "IDLE"
    /\ response_text.kind = "upload_prompt"

\* C2: in EMAIL, DATE and TIME a chat turn whose utterance fails the state's
\* validator leaves booking_state and booking_data unchanged, the collected
\* field unset, creates no booking, sends nothing and answers with the
\* format error of that state.
C2_ValidatorFailureChangesNothing ==
    [][ \A text \in Utterances :
          LET failed(st, valid, field, kind) ==
                booking_state = st =>
                    \/ /\ booking_state' = booking_state
                       /\ booking_data' = booking_data
                       /\ field \notin DOMAIN booking_data'
                       /\ bookings' = bookings
                       /\ sqlite_sequence' = sqlite_sequence
                       /\ outbox' = outbox
                       /\ response_text' = Response(kind, 0, EmptyDraft)
                    \/ valid
                    \/ ~chat_turn(text)
          IN  /\ failed("EMAIL", is_valid_email(text), "email", "invalid_email")
              /\ failed("DATE", is_valid_date(text), "date", "invalid_date")
              /\ failed("TIME", is_valid_time(text), "time", "invalid_time")
      ]_vars

\* an invalid email was answered in EMAIL: only the name is in the draft
C2_Witness ==
    /\ booking_state = "EMAIL"
    /\ response_text.kind = "invalid_email"
    /\ DOMAIN booking_data = {"name"}
    /\ bookings = {}

\* C3: the scripted dialogue (intent, name n, email e, date d, time t,
\* affirmative) visits IDLE, NAME, EMAIL, DATE, TIME, CONFIRM and ends in IDLE;
\* the store is empty until the affirmative and holds from then on exactly one
\* booking (n, e, d, t), "Dental Consultation", Confirmed.
C3_ScriptedDialogueBooksOnce ==
    /\ idx = 1 => booking_state = "IDLE" /\ booking_data = EmptyDraft
    /\ idx = 2 => booking_state = "NAME"
    /\ idx = 3 => booking_state = "EMAIL"
    /\ idx = 4 => booking_state = "DATE"
    /\ idx = 5 => booking_state = "TIME"
    /\ idx = 6 => booking_state = "CONFIRM"
    /\ idx \in 1..6 => bookings = {} /\ pc = "idle"
    /\ idx = 7 =>
          /\ booking_state = IF pc = "idle" THEN "IDLE" ELSE "CONFIRM"
          /\ get_all_bookings =
                { [ id               |-> 1,
                    patient_name     |-> script[2],
                    patient_email    |-> script[3],
                    appointment_date |-> script[4],
                    appointment_time |-> script[5],
                    booking_type     |-> "Dental Consultation",
                    status           |-> "Confirmed" ] }

\* the whole script was typed and the commit has run to its end
C3_Witness ==
    /\ idx = 7
    /\ pc = "idle"
    /\ booking_state = "IDLE"
    /\ Cardinality(bookings) = 1

\* C4: in CONFIRM a chat turn whose utterance is not an affirmative token
\* resets to IDLE with an empty draft, creates no booking and sends neither
\* the confirmation nor the admin alert.
C4_NonAffirmativeCancels ==
    [][ \A text \in Utterances :
          (booking_state = "CONFIRM" /\ lower(text) \notin affirmative_tokens
             /\ chat_turn(text)) =>
              /\ booking_state' = "IDLE"
              /\ booking_data' = EmptyDraft
              /\ bookings' = bookings
              /\ sqlite_sequence' = sqlite_sequence
              /\ outbox' = outbox
              /\ pc' = "idle"
      ]_vars

\* a first dialogue was cancelled at the confirmation
C4_Witness ==
    /\ booking_state = "IDLE"
    /\ response_text.kind = "booking_cancelled"
    /\ booking_data = EmptyDraft
    /\ bookings = {}
    /\ outbox = <<>>

\* C5: the sends change nothing in the store, and when the confirmation and
\* the admin alert of a commit have both failed, the turn ends with the
\* booking in get_all_bookings, once and Confirmed, the state IDLE, the draft
\* empty and the answer "Booking Confirmed ... Email could not be sent".
C5_NotifierFailureKeepsBooking ==
    [][ /\ outbox' # outbox =>
              /\ bookings' = bookings
              /\ sqlite_sequence' = sqlite_sequence
        /\ ( /\ pc = "send_admin_alert"
             /\ pc' = "idle"
             /\ ~outbox'[Len(outbox') - 1].ok
             /\ ~outbox'[Len(outbox')].ok ) =>
              /\ Cardinality({b \in get_all_bookings' : b.id = booking_id}) = 1
              /\ \A b \in get_all_bookings' : b.id = booking_id => b.status = "Confirmed"
              /\ Cardinality(get_all_bookings') = sqlite_sequence'
              /\ booking_state' = "IDLE"
              /\ booking_data' = EmptyDraft
              /\ response_text' =
                    Response("booking_confirmed_email_failed", booking_id, EmptyDraft)
      ]_vars

\* a commit ended after both of its sends failed
C5_Witness ==
    /\ pc = "idle"
    /\ Len(outbox) = 2
    /\ ~outbox[1].ok
    /\ ~outbox[2].ok
    /\ response_text.kind = "booking_confirmed_email_failed"
    /\ response_text.booking_id \in Ids(bookings)

\* C6: every send is attempted in a state whose store already holds the
\* booking the send names, and the send itself changes nothing in the store;
\* so no send names a booking that was not created.
C6_DispatchAfterCommit ==
    [][ outbox' # outbox =>
          /\ Len(outbox') = Len(outbox) + 1
          /\ SubSeq(outbox', 1, Len(outbox)) = outbox
          /\ Last(outbox').booking_id \in Ids(bookings)
          /\ bookings' = bookings
      ]_vars

\* the confirmation and the admin alert of a stored booking were attempted
C6_Witness ==
    /\ Len(outbox) = 2
    /\ outbox[1].kind = "confirmation"
    /\ outbox[2].kind = "admin_alert"
    /\ outbox[1].booking_id \in Ids(bookings)
    /\ outbox[2].booking_id = outbox[1].booking_id

\* C7: when add_booking fails in the affirmative turn of CONFIRM, the turn
\* ends with an answer that reports the booking as not created, no row, no
\* send, and the session out of CONFIRM with an empty draft.
C7_StoreFailureReported ==
    [][ StoreFailure =>
          /\ response_text'.kind = "booking_not_created"
          /\ booking_state' # "CONFIRM"
          /\ booking_data' = EmptyDraft
          /\ bookings' = bookings
          /\ outbox' = outbox
      ]_vars

\* C8: the id add_booking returns is greater than the id it returned before,
\* than the id of every stored booking and than the id of every booking the
\* audit log names (the deleted ones among them).
C8_IdsStrictlyIncrease ==
    [][ (\E b \in bookings' : b.id \notin Ids(bookings)) =>
          /\ Ids(bookings') = Ids(bookings) \cup {booking_id'}
          /\ booking_id' > booking_id
          /\ \A b \in bookings : booking_id' > b.id
          /\ \A i \in DOMAIN admin_logs : booking_id' > admin_logs[i].booking_id
      ]_vars

\* two ids were returned and the booking of the first has been deleted
C8_Witness ==
    /\ booking_id = 2
    /\ Ids(bookings) = {2}
    /\ \E i \in DOMAIN admin_logs :
          admin_logs[i].action = "Booking deleted" /\ admin_logs[i].booking_id = 1

\* C9: "Save Status" and "Delete Booking" on a booking that is in the store
\* append exactly one row to admin_logs, whose booking_id is the booking's id
\* and whose performed_by is the admin the call names, and leave the earlier
\* rows as they were.
C9_OneAuditEntryPerMutation ==
    [][ \A a \in AdminSessions :
          (row[a] # 0 /\ row'[a] = 0 /\ row[a] \in Ids(bookings)) =>
              /\ Len(admin_logs') = Len(admin_logs) + 1
              /\ SubSeq(admin_logs', 1, Len(admin_logs)) = admin_logs
              /\ Last(admin_logs').booking_id = row[a]
              /\ Last(admin_logs').performed_by = "Admin"
      ]_vars

\* a status change and then the deletion of the same stored booking
C9_Witness ==
    /\ Len(admin_logs) = 2
    /\ admin_logs[1].action = "Status changed to Cancelled"
    /\ admin_logs[2].action = "Booking deleted"
    /\ admin_logs[1].booking_id = admin_logs[2].booking_id
    /\ admin_logs[1].booking_id \notin Ids(bookings)

\* C10: "Save Status" and "Delete Booking" on an id that is not in the store
\* leave the bookings and admin_logs unchanged.
C10_MissingIdChangesNothing ==
    [][ \A a \in AdminSessions :
          (row[a] # 0 /\ row'[a] = 0 /\ row[a] \notin Ids(bookings)) =>
              /\ bookings' = bookings
              /\ admin_logs' = admin_logs
      ]_vars

\* C11: every row appended to admin_logs goes with one mutation that happened:
\* the step that appends it changes the bookings (a status changed or a row
\* was deleted), and the row's booking_id is the id of a booking that was in
\* the store when the row was written.
C11_AuditEntryMatchesMutation ==
    [][ admin_logs' # admin_logs =>
          /\ Len(admin_logs') = Len(admin_logs) + 1
          /\ Last(admin_logs').booking_id \in Ids(bookings)
          /\ bookings' # bookings
      ]_vars

\* C12: a row that enters the bookings has status "Confirmed"; no step of the
\* conversation (a chat turn or one of the two sends) changes or removes a
\* row that is already stored; the status of a stored row changes only in a
\* "Save Status" step on its id, and a stored row leaves the table only in a
\* "Delete Booking" step on its id.
C12_StatusAndRemovalOnlyByStaff ==
    [][ /\ \A b \in bookings' : b.id \notin Ids(bookings) => b.status = "Confirmed"
        /\ \/ bookings \subseteq bookings'
           \/ ~ \/ ScriptTurn
                \/ SendEmailConfirmation
                \/ SendAdminAlert
        /\ \A b \in bookings :
              /\ (\E c \in bookings' : c.id = b.id /\ c.status # b.status) =>
                    \E a \in AdminSessions : \E s \in StatusOptions :
                        SaveStatus(a, s) /\ row[a] = b.id
              /\ b.id \notin Ids(bookings') =>
                    \E a \in AdminSessions : DeleteBooking(a) /\ row[a] = b.id
      ]_vars

\* the second dialogue has committed booking 2 after booking 1 was set to
\* "Completed" and then deleted from the dashboard
C12_Witness ==
    /\ sqlite_sequence = 2
    /\ pc = "idle"
    /\ idx > Len(script)
    /\ Ids(bookings) = {2}
    /\ \A b \in bookings : b.status = "Confirmed"
    /\ Len(admin_logs) = 2
    /\ admin_logs[1].action = "Status changed to Completed"
    /\ admin_logs[2].action = "Booking deleted"

\* C13: the keys of booking_data are fixed by booking_state: none in IDLE and
\* NAME, name in EMAIL, name and email in DATE, name, email and date in TIME,
\* all four in CONFIRM; a stored email, date or time passes its validator;
\* the keys a handler reads (name and date in TIME, all four in CONFIRM and
\* in the commit that follows it) are keys of booking_data.
C13_DraftFieldsFollowState ==
    /\ DOMAIN booking_data =
          CASE booking_state = "IDLE"    -> {}
            [] booking_state = "NAME"    -> {}
            [] booking_state = "EMAIL"   -> {"name"}
            [] booking_state = "DATE"    -> {"name", "email"}
            [] booking_state = "TIME"    -> {"name", "email", "date"}
            [] booking_state = "CONFIRM" -> {"name", "email", "date", "time"}
    /\ "email" \in DOMAIN booking_data => is_valid_email(booking_data["email"])
    /\ "date" \in DOMAIN booking_data => is_valid_date(booking_data["date"])
    /\ "time" \in DOMAIN booking_data => is_valid_time(booking_data["time"])
    /\ booking_state = "TIME" => {"name", "date"} \subseteq DOMAIN booking_data
    /\ (booking_state = "CONFIRM" \/ pc # "idle") =>
          {"name", "email", "date", "time"} \subseteq DOMAIN booking_data

\* the second draft of a session, complete and waiting for the confirmation
C13_Witness ==
    /\ booking_state = "CONFIRM"
    /\ pc = "idle"
    /\ response_text.kind = "confirm_details"
    /\ DOMAIN booking_data = {"name", "email", "date", "time"}
    /\ sqlite_sequence = 1

\* C14: a chat turn in IDLE answers by the first classifier that matches, in
\* the order greeting, thanks, booking intent, knowledge fallback; a greeting
\* or a thanks leaves booking_state IDLE even if the text holds a booking
\* keyword; booking_state becomes NAME exactly when the text holds a booking
\* keyword and is neither a greeting nor a thanks; booking_data is unchanged.
C14_IdleClassifierOrder ==
    [][ (booking_state = "IDLE" /\ ScriptTurn) =>
          LET text == script[idx] IN
          /\ booking_data' = booking_data
          /\ response_text'.kind \in
                IF is_greeting(text) THEN {"greeting"}
                ELSE IF is_thanks(text) THEN {"thanks"}
                ELSE IF detect_booking_intent(text) THEN {"ask_name"}
                ELSE {"rag_answer", "upload_prompt"}
          /\ (is_greeting(text) \/ is_thanks(text)) => booking_state' = "IDLE"
          /\ booking_state' = "NAME" <=>
                (detect_booking_intent(text) /\ ~is_greeting(text) /\ ~is_thanks(text))
          /\ booking_state' \in {"IDLE", "NAME"}
      ]_vars

\* a thanks with a booking keyword was answered as a thanks, and then a
\* greeting with a booking keyword as a greeting, both in IDLE
C14_Witness ==
    /\ idx = 3
    /\ script[1] = U_slot_thx
    /\ script[2] = U_hi_book
    /\ detect_booking_intent(script[1]) /\ detect_booking_intent(script[2])
    /\ booking_state = "IDLE"
    /\ response_text.kind = "greeting"
    /\ booking_data = EmptyDraft

\* C15: the turn that takes booking_state from TIME to CONFIRM answers with
\* the confirm/cancel summary, and the summary shows every field of the draft
\* that a confirmation commits: name, email, date and time, each with the
\* value held in booking_data.
C15_SummaryShowsWholeDraft ==
    [][ (booking_state = "TIME" /\ booking_state' = "CONFIRM") =>
          /\ response_text'.kind = "confirm_details"
          /\ DOMAIN response_text'.shown = {"name", "email", "date", "time"}
          /\ response_text'.shown = booking_data'
      ]_vars

SessionOf(s) ==
    IF active = s
    THEN [ booking_state |-> booking_state,
           booking_data  |-> booking_data,
           response_text |-> response_text,
           vectorstore   |-> vectorstore,
           pc            |-> pc,
           booking_id    |-> booking_id,
           email_sent    |-> email_sent,
           messages      |-> messages,
           script        |-> script,
           idx           |-> idx ]
    ELSE other

\* session s has typed its whole dialogue and its last turn has ended
Finished(s) ==
    /\ SessionOf(s).idx > Len(SessionOf(s).script)
    /\ SessionOf(s).pc = "idle"

\* the dialogue of session s ends with an affirmative token
Confirms(s) == lower(Last(SessionOf(s).script)) \in affirmative_tokens

\* C17: a step of one session's script run leaves the state, draft and
\* history of the other session as they were, and handing the processor over
\* changes neither session; once both sessions have finished, the store holds
\* one booking per confirming session, with distinct ids, and for each
\* confirming session a booking with the name, email, date and time that
\* session typed, whose id is the one its confirmation message shows.
C17_SessionsIndependent ==
    /\ [][ /\ active' = active => SessionOf(3 - active)' = SessionOf(3 - active)
           /\ active' # active => \A s \in {1, 2} : SessionOf(s)' = SessionOf(s)
         ]_vars
    /\ []( (Finished(1) /\ Finished(2)) =>
            /\ Cardinality(bookings) = Cardinality({s \in {1, 2} : Confirms(s)})
            /\ Cardinality(Ids(bookings)) = Cardinality(bookings)
            /\ \A s \in {1, 2} : Confirms(s) =>
                  \E b \in bookings :
                     /\ b.patient_name = SessionOf(s).script[2]
                     /\ b.patient_email = SessionOf(s).script[3]
                     /\ b.appointment_date = SessionOf(s).script[4]
                     /\ b.appointment_time = SessionOf(s).script[5]
                     /\ Last(SessionOf(s).messages).content.booking_id = b.id )

\* both sessions confirmed, session 2 committing first and session 1 sending
\* its confirmation before session 2 sent its alert: session 1 holds booking 2
C17_Witness ==
    /\ Finished(1) /\ Finished(2)
    /\ Confirms(1) /\ Confirms(2)
    /\ Cardinality(bookings) = 2
    /\ Last(SessionOf(1).messages).content.booking_id = 2
    /\ Last(SessionOf(2).messages).content.booking_id = 1
    /\ Len(SessionOf(1).messages) = 12
    /\ outbox[1].booking_id = 1 /\ outbox[2].booking_id = 2

\* C18: the step that ends a commit appends one admin alert for the new
\* booking to the outbox, after a confirmation that went through as after
\* one that failed; whatever the alert's outcome, the step leaves the
\* bookings alone, resets the session, and answers by the outcome of the
\* confirmation alone; between turns every booking made by the session has
\* exactly one confirmation and one alert in the outbox.
C18_AlertOncePerCommit ==
    /\ [][ (pc = "send_admin_alert" /\ pc' # pc) =>
             /\ Len(outbox') = Len(outbox) + 1
             /\ SubSeq(outbox', 1, Len(outbox)) = outbox
             /\ Last(outbox').kind = "admin_alert"
             /\ Last(outbox').booking_id = booking_id
             /\ Last(outbox).kind = "confirmation"
             /\ Last(outbox).booking_id = booking_id
             /\ response_text' =
                   Response(IF Last(outbox).ok THEN "booking_confirmed_email_sent"
                                               ELSE "booking_confirmed_email_failed",
                            booking_id, EmptyDraft)
             /\ booking_state' = "IDLE"
             /\ booking_data' = EmptyDraft
             /\ pc' = "idle"
             /\ bookings' = bookings
         ]_vars
    /\ []( pc = "idle" =>
             \A id \in 1..sqlite_sequence :
                /\ Cardinality({i \in DOMAIN outbox :
                       outbox[i].kind = "admin_alert" /\ outbox[i].booking_id = id}) = 1
                /\ Cardinality({i \in DOMAIN outbox :
                       outbox[i].kind = "confirmation" /\ outbox[i].booking_id = id}) = 1 )

\* two commits: a failed confirmation followed by an alert that went through,
\* then a confirmation that went through followed by an alert that failed,
\* answered "email sent"
C18_Witness ==
    /\ pc = "idle"
    /\ Len(outbox) = 4
    /\ outbox[1] = [kind |-> "confirmation", booking_id |-> 1, ok |-> FALSE]
    /\ outbox[2] = [kind |-> "admin_alert", booking_id |-> 1, ok |-> TRUE]
    /\ outbox[3] = [kind |-> "confirmation", booking_id |-> 2, ok |-> TRUE]
    /\ outbox[4] = [kind |-> "admin_alert", booking_id |-> 2, ok |-> FALSE]
    /\ response_text.kind = "booking_confirmed_email_sent"
    /\ booking_state = "IDLE"

\* C19: admin_logs is append-only: no step (a chat turn, a send, the
\* add_booking of a commit, "Save Status", "Delete Booking") removes or
\* alters a row that is in admin_logs; "Delete Booking" on a stored booking
\* takes it out of what get_all_bookings returns, keeps every earlier audit
\* row that names its id and adds the deletion row.
C19_AuditLogAppendOnly ==
    [][ /\ Len(admin_logs') >= Len(admin_logs)
        /\ SubSeq(admin_logs', 1, Len(admin_logs)) = admin_logs
        /\ \A a \in AdminSessions :
              (row[a] \in Ids(bookings) /\ row[a] \notin Ids(bookings')) =>
                 /\ row[a] \notin Ids(get_all_bookings')
                 /\ Last(admin_logs') = [ action       |-> "Booking deleted",
                                          booking_id   |-> row[a],
                                          performed_by |-> "Admin" ]
                 /\ \A i \in DOMAIN admin_logs :
                       admin_logs[i].booking_id = row[a] => admin_logs'[i] = admin_logs[i]
      ]_vars

\* booking 1 was set to "Cancelled" and then deleted; both audit rows are
\* there after the chat session has gone on to commit booking 2
C19_Witness ==
    /\ Ids(get_all_bookings) = {2}
    /\ pc = "idle"
    /\ booking_state = "IDLE"
    /\ admin_logs = << [ action       |-> "Status changed to Cancelled",
                         booking_id   |-> 1,
                         performed_by |-> "Admin" ],
                       [ action       |-> "Booking deleted",
                         booking_id   |-> 1,
                         performed_by |-> "Admin" ] >>

====
